---- MODULE Spec2Model ----
(***************************************************************************)
(* Model of lib/data/video.py: the source factory create_capture (descriptor *)
(* parsing, construction of a synthetic generator or of a capture, one      *)
(* fallback hop) and the read operation of the frame sources.               *)
(*                                                                          *)
(* Strings are sequences of one-character strings, so that split, strip,    *)
(* int() and float() are computed character by character.  A frame is       *)
(* represented by its size and by the value of one sampled channel.  The    *)
(* simulated time of the Chess generator is counted in ticks of 1/30.       *)
(***************************************************************************)
EXTENDS Integers, Sequences, FiniteSets, TLC

----------------------------------------------------------------------------
(* Bounds of the model *)

\* most invocations of create_capture followed within one resolution
MaxAttempts == 4

\* most read() calls made on a resolved source
MaxReads == 3

\* longest generated descriptor of the parsing specification
MaxLen == 4

----------------------------------------------------------------------------
(* Character classes and the string constants of the source *)

Whitespace == {" ", "\t", "\n"}

Alpha ==
    {"a","b","c","d","e","f","g","h","i","j","k","l","m","n","o","p","q","r","s","t","u","v","w","x","y","z",
     "A","B","C","D","E","F","G","H","I","J","K","L","M","N","O","P","Q","R","S","T","U","V","W","X","Y","Z"}

Digits == {"0","1","2","3","4","5","6","7","8","9"}

DigitVal ==
    ("0" :> 0) @@ ("1" :> 1) @@ ("2" :> 2) @@ ("3" :> 3) @@ ("4" :> 4) @@
    ("5" :> 5) @@ ("6" :> 6) @@ ("7" :> 7) @@ ("8" :> 8) @@ ("9" :> 9)

\* 'synth'
kw_synth ==
    <<"s","y","n","t","h">>

\* 'class'
kw_class ==
    <<"c","l","a","s","s">>

\* 'size'
kw_size ==
    <<"s","i","z","e">>

\* 'noise'
kw_noise ==
    <<"n","o","i","s","e">>

\* 'bg'
kw_bg ==
    <<"b","g">>

\* 'chess'
kw_chess ==
    <<"c","h","e","s","s">>

\* 'book'
kw_book ==
    <<"b","o","o","k">>

\* 'cube'
kw_cube ==
    <<"c","u","b","e">>

\* '../data/graf1.png'
path_graf1 ==
    <<".",".","/","d","a","t","a","/","g","r","a","f","1",".","p","n","g">>

\* '../data/box.png'
path_box ==
    <<".",".","/","d","a","t","a","/","b","o","x",".","p","n","g">>

\* '../data/pca_test1.jpg'
path_pca ==
    <<".",".","/","d","a","t","a","/","p","c","a","_","t","e","s","t","1",".","j","p","g">>

\* '../data/lena.jpg'
path_lena ==
    <<".",".","/","d","a","t","a","/","l","e","n","a",".","j","p","g">>

\* 'synth:'
preset_empty ==
    <<"s","y","n","t","h",":">>

\* 'synth:bg=../data/lena.jpg:noise=0.1'
preset_lena ==
    <<"s","y","n","t","h",":","b","g","=",".",".","/","d","a","t","a","/","l","e","n","a",".","j","p","g",":","n","o","i","s","e","=","0",".","1">>

\* 'synth:class=chess:bg=../data/lena.jpg:noise=0.1:size=640x480'
preset_chess ==
    <<"s","y","n","t","h",":","c","l","a","s","s","=","c","h","e","s","s",":","b","g","=",".",".","/","d","a","t","a","/","l","e","n","a",".","j","p","g",":","n","o","i","s","e","=","0",".","1",":","s","i","z","e","=","6","4","0","x","4","8","0">>

\* 'synth:class=book:bg=../data/graf1.png:noise=0.1:size=640x480'
preset_book ==
    <<"s","y","n","t","h",":","c","l","a","s","s","=","b","o","o","k",":","b","g","=",".",".","/","d","a","t","a","/","g","r","a","f","1",".","p","n","g",":","n","o","i","s","e","=","0",".","1",":","s","i","z","e","=","6","4","0","x","4","8","0">>

\* 'synth:class=cube:bg=../data/pca_test1.jpg:noise=0.0:size=640x480'
preset_cube ==
    <<"s","y","n","t","h",":","c","l","a","s","s","=","c","u","b","e",":","b","g","=",".",".","/","d","a","t","a","/","p","c","a","_","t","e","s","t","1",".","j","p","g",":","n","o","i","s","e","=","0",".","0",":","s","i","z","e","=","6","4","0","x","4","8","0">>

\* 'synth:class=chess:size=320x240:noise=0.1'
d_chess320 ==
    <<"s","y","n","t","h",":","c","l","a","s","s","=","c","h","e","s","s",":","s","i","z","e","=","3","2","0","x","2","4","0",":","n","o","i","s","e","=","0",".","1">>

\* 'synth:class=chess:noise=0.1'
d_chessplain ==
    <<"s","y","n","t","h",":","c","l","a","s","s","=","c","h","e","s","s",":","n","o","i","s","e","=","0",".","1">>

\* 'synth'
d_synth ==
    <<"s","y","n","t","h">>

\* 'c:path/to/video.mp4'
d_drive ==
    <<"c",":","p","a","t","h","/","t","o","/","v","i","d","e","o",".","m","p","4">>

\* ' c:x.avi '
d_drivepad ==
    <<" ","c",":","x",".","a","v","i"," ">>

\* '0'
d_dev0 ==
    <<"0">>

\* '1:x=1'
d_dev1x ==
    <<"1",":","x","=","1">>

\* 'video.mp4:size=320x240'
d_file ==
    <<"v","i","d","e","o",".","m","p","4",":","s","i","z","e","=","3","2","0","x","2","4","0">>

\* 'synth:bg'
d_nokey ==
    <<"s","y","n","t","h",":","b","g">>

\* 'synth:noise=0.1:noise=0.0'
d_dupkey ==
    <<"s","y","n","t","h",":","n","o","i","s","e","=","0",".","1",":","n","o","i","s","e","=","0",".","0">>

\* 'synth:a=b=c'
d_twoeq ==
    <<"s","y","n","t","h",":","a","=","b","=","c">>

\* 'cc:x'
d_filebad ==
    <<"c","c",":","x">>

\* presets (the named shortcut descriptors)
presets ==
    [empty |-> preset_empty, lena |-> preset_lena, chess |-> preset_chess,
     book |-> preset_book, cube |-> preset_cube]

PresetNames == {"empty", "lena", "chess", "book", "cube"}

\* classes = dict(chess=Chess, book=Book, cube=Cube): the registry's keys
classes == {kw_chess, kw_book, kw_cube}

\* the default frame size of VideoSynthBase
DefaultWidth == 640

DefaultHeight == 480

\* the colours Chess.render fills the white and the black quads with
WhiteColor == 245

BlackColor == 10

\* the range of an 8-bit unsigned channel (np.uint8) and of a noise sample (np.int8)
MaxU8 == 255

MinI8 == -128

MaxI8 == 127

----------------------------------------------------------------------------
(* String functions of the Python runtime, computed as str computes them *)

\* str.split(sep): the pieces between the separators, empty pieces included
RECURSIVE SplitFrom(_, _, _, _, _)
SplitFrom(s, sep, i, cur, acc) ==
    IF i > Len(s) THEN Append(acc, cur)
    ELSE IF s[i] = sep THEN SplitFrom(s, sep, i + 1, <<>>, Append(acc, cur))
    ELSE SplitFrom(s, sep, i + 1, Append(cur, s[i]), acc)

Split(s, sep) == SplitFrom(s, sep, 1, <<>>, <<>>)

RECURSIVE LStrip(_)
LStrip(s) ==
    IF Len(s) > 0 /\ s[1] \in Whitespace THEN LStrip(Tail(s)) ELSE s

RECURSIVE RStrip(_)
RStrip(s) ==
    IF Len(s) > 0 /\ s[Len(s)] \in Whitespace
    THEN RStrip(SubSeq(s, 1, Len(s) - 1)) ELSE s

\* str.strip()
Strip(s) == RStrip(LStrip(s))

\* str.isalpha(): non-empty and every character a letter
IsAlpha(s) == Len(s) > 0 /\ \A i \in 1..Len(s) : s[i] \in Alpha

RECURSIVE DigitsValue(_, _)
DigitsValue(s, acc) ==
    IF Len(s) = 0 THEN acc ELSE DigitsValue(Tail(s), 10 * acc + DigitVal[s[1]])

AllDigits(s) == Len(s) > 0 /\ \A i \in 1..Len(s) : s[i] \in Digits

\* the element of a one-element set; {e(x) : x \in {v}} computes v once
Once(S) == CHOOSE x \in S : TRUE

\* int(s): surrounding whitespace and one sign are allowed, then decimal
\* digits; anything else is a ValueError (ok = FALSE)
ParseInt(s0) ==
    Once({ LET signed == Len(s) > 0 /\ s[1] \in {"+", "-"}
               body == IF signed THEN Tail(s) ELSE s
           IN IF AllDigits(body)
              THEN [ok |-> TRUE,
                    val |-> IF signed /\ s[1] = "-" THEN 0 - DigitsValue(body, 0)
                            ELSE DigitsValue(body, 0)]
              ELSE [ok |-> FALSE, val |-> 0]
           : s \in {Strip(s0)} })

RECURSIVE Pow10(_)
Pow10(n) == IF n = 0 THEN 1 ELSE 10 * Pow10(n - 1)

\* float(s) for decimal literals [sign]digits[.digits]: the value is num/den;
\* anything else is a ValueError (ok = FALSE)
ParseFloat(s0) ==
    Once({ LET signed == Len(s) > 0 /\ s[1] \in {"+", "-"}
           IN Once({ LET ip == parts[1]
                         fp == IF Len(parts) = 2 THEN parts[2] ELSE <<>>
                         digitsOk == /\ Len(parts) \in {1, 2}
                                     /\ Len(ip) + Len(fp) > 0
                                     /\ \A i \in 1..Len(ip) : ip[i] \in Digits
                                     /\ \A i \in 1..Len(fp) : fp[i] \in Digits
                         mag == DigitsValue(ip, 0) * Pow10(Len(fp)) + DigitsValue(fp, 0)
                     IN IF digitsOk
                        THEN [ok |-> TRUE,
                              num |-> IF signed /\ s[1] = "-" THEN 0 - mag ELSE mag,
                              den |-> Pow10(Len(fp))]
                        ELSE [ok |-> FALSE, num |-> 0, den |-> 1]
                     : parts \in {Split(IF signed THEN Tail(s) ELSE s, ".")} })
           : s \in {Strip(s0)} })

\* w, h = map(int, size.split('x')): exactly two integers, else ValueError
ParseSize(s) ==
    Once({ IF Len(parts) # 2 THEN [ok |-> FALSE, w |-> 0, h |-> 0]
           ELSE Once({ IF w.ok /\ h.ok THEN [ok |-> TRUE, w |-> w.val, h |-> h.val]
                       ELSE [ok |-> FALSE, w |-> 0, h |-> 0]
                       : w \in {ParseInt(parts[1])}, h \in {ParseInt(parts[2])} })
           : parts \in {Split(s, "x")} })

----------------------------------------------------------------------------
(* create_capture, lines 179-189: the descriptor's tokens and parameters *)

\* source = str(source).strip(); chunks = source.split(':')
RawChunks(d) == Split(Strip(d), ":")

\* the drive-letter test without its isalpha() condition
IsDriveLetter_noalpha(chunks) ==
    Len(chunks) > 1 /\ Len(chunks[1]) = 1

\* the drive-letter test of line 182
IsDriveLetter(chunks) ==
    Len(chunks) > 1 /\ Len(chunks[1]) = 1 /\ IsAlpha(chunks[1])

\* lines 182-184: chunks[1] = chunks[0] + ':' + chunks[1]; del chunks[0]
MergeDrive(chunks) ==
    IF IsDriveLetter(chunks)
    THEN <<chunks[1] \o <<":">> \o chunks[2]>> \o SubSeq(chunks, 3, Len(chunks))
    ELSE chunks

Chunks(d) == MergeDrive(RawChunks(d))

\* lines 186-188: source = chunks[0]; try: source = int(source)
SourceOf(chunks) ==
    LET i == ParseInt(chunks[1])
    IN IF i.ok THEN [isInt |-> TRUE, n |-> i.val, s |-> <<>>]
       ELSE [isInt |-> FALSE, n |-> 0, s |-> chunks[1]]

\* one element s.split('=') of the sequence given to dict(): dict() takes it
\* only when it has exactly two items
PairOk(tok) == Len(Split(tok, "=")) = 2

\* dict.__setitem__: the key's earlier value, if any, is replaced
DictSet(d, k, v) == [x \in (DOMAIN d) \cup {k} |-> IF x = k THEN v ELSE d[x]]

\* a dict construction that passes over the elements that are no pair
RECURSIVE MakeDict_skip(_, _, _)
MakeDict_skip(toks, i, acc) ==
    IF i > Len(toks) THEN [raised |-> FALSE, d |-> acc]
    ELSE IF ~PairOk(toks[i]) THEN MakeDict_skip(toks, i + 1, acc)
    ELSE LET kv == Split(toks[i], "=")
         IN MakeDict_skip(toks, i + 1, DictSet(acc, kv[1], kv[2]))

\* line 189: params = dict(s.split('=') for s in chunks[1:]); the pairs are
\* inserted in order, and the first element that is no pair raises ValueError
RECURSIVE MakeDict(_, _, _)
MakeDict(toks, i, acc) ==
    IF i > Len(toks) THEN [raised |-> FALSE, d |-> acc]
    ELSE IF ~PairOk(toks[i]) THEN [raised |-> TRUE, d |-> <<>>]
    ELSE LET kv == Split(toks[i], "=")
         IN MakeDict(toks, i + 1, DictSet(acc, kv[1], kv[2]))

ParamsOf(chunks) == MakeDict(Tail(chunks), 1, <<>>)

\* dict.get(key, None) as a test and a value
Has(params, k) == k \in DOMAIN params

----------------------------------------------------------------------------
(* Values *)

\* fallback = None, and a supplied fallback descriptor
NoFallback == [some |-> FALSE, d |-> <<>>]

Some(d) == [some |-> TRUE, d |-> d]

\* cap = None (kind "none"), and the fields of a source object
NoCap ==
    [kind |-> "none", opened |-> FALSE, w |-> 0, h |-> 0,
     noiseNum |-> 0, noiseDen |-> 1, hasBg |-> FALSE, bgVal |-> 0, t |-> 0]

\* cv.imread(path, 1): None when the file cannot be read, else an image
NoImage == [loaded |-> FALSE, w |-> 0, h |-> 0, val |-> 0]

\* side of the square images the file system holds
ImageDim == 512

\* values of the sampled channel in a stored image
PixelVals == {0, 100, 250}

ImreadResults ==
    {NoImage} \cup {[loaded |-> TRUE, w |-> ImageDim, h |-> ImageDim, val |-> v] : v \in PixelVals}

\* values cv.randn leaves in the sampled channel of the int8 noise buffer
NoiseSamples == {MinI8, -50, 0, 50, MaxI8}

----------------------------------------------------------------------------
(* The synthetic generators *)

\* VideoSynthBase.__init__(size=None, noise=0.0, bg=None, **params); img is
\* what cv.imread returns for bg.  ok = FALSE: the constructor raised
\* (bg.shape of None, a size that is no WxH, cv.resize of None or to an
\* empty size, a noise that is no number).
VideoSynthBaseInit(params, img) ==
    Once({ LET hasBg == Has(params, kw_bg)
               hasSize == Has(params, kw_size)
               bgOk == hasBg => img.loaded
               resizeOk == hasSize => (size.ok /\ hasBg /\ size.w > 0 /\ size.h > 0)
               w == IF hasSize THEN size.w ELSE IF hasBg THEN img.w ELSE DefaultWidth
               h == IF hasSize THEN size.h ELSE IF hasBg THEN img.h ELSE DefaultHeight
           IN IF bgOk /\ resizeOk /\ noise.ok
              THEN [ok |-> TRUE,
                    cap |-> [kind |-> "base", opened |-> TRUE, w |-> w, h |-> h,
                             noiseNum |-> noise.num, noiseDen |-> noise.den,
                             hasBg |-> hasBg, bgVal |-> IF hasBg THEN img.val ELSE 0,
                             t |-> 0]]
              ELSE [ok |-> FALSE, cap |-> NoCap]
           : size \in {IF Has(params, kw_size) THEN ParseSize(params[kw_size])
                       ELSE [ok |-> FALSE, w |-> 0, h |-> 0]},
             noise \in {IF Has(params, kw_noise) THEN ParseFloat(params[kw_noise])
                        ELSE [ok |-> TRUE, num |-> 0, den |-> 1]} })

\* Chess.__init__: the base constructor, the grid, the camera, self.t = 0
ChessInit(params, img) ==
    LET b == VideoSynthBaseInit(params, img)
    IN IF b.ok THEN [ok |-> TRUE, cap |-> [b.cap EXCEPT !.kind = "chess", !.t = 0]]
       ELSE b

\* Book.__init__ and Cube.__init__: the base constructor, then the scene
\* engine TestSceneRender, whose construction succeeds (engine) or raises
SceneInit(kind, params, img, engine) ==
    LET b == VideoSynthBaseInit(params, img)
    IN IF b.ok /\ engine THEN [ok |-> TRUE, cap |-> [b.cap EXCEPT !.kind = kind]]
       ELSE [ok |-> FALSE, cap |-> NoCap]

\* Class = classes.get(params.get('class', None), VideoSynthBase)
ClassOf(params) ==
    IF Has(params, kw_class) /\ params[kw_class] \in classes
    THEN (IF params[kw_class] = kw_chess THEN "chess"
          ELSE IF params[kw_class] = kw_book THEN "book" ELSE "cube")
    ELSE "base"

\* try: cap = Class(**params) / except: pass
Construct(params, img, engine) ==
    LET k == ClassOf(params)
        r == IF k = "chess" THEN ChessInit(params, img)
             ELSE IF k = "base" THEN VideoSynthBaseInit(params, img)
             ELSE SceneInit(k, params, img, engine)
    IN IF r.ok THEN r.cap ELSE NoCap

\* cap = cv.VideoCapture(source): an object that is open or not
VideoCapture(opens) ==
    [NoCap EXCEPT !.kind = "capture", !.opened = opens]

\* isOpened() of the object create_capture holds
isOpened(c) == c.opened

\* the test of line 202 without its isOpened() half
Unusable_noneOnly(c) == c.kind = "none"

\* the test of line 202: cap is None or not cap.isOpened()
Unusable(c) == c.kind = "none" \/ ~isOpened(c)

----------------------------------------------------------------------------
(* One invocation of create_capture from line 191 to its line 202 *)

\* lines 191-201 for the parsed source and the outcome p of line 189.
\* raised: the ValueError of line 189 or of line 199 left the function;
\* built: a constructor (line 194 or 197) was called
Body(source, p, img, opens, engine) ==
    IF p.raised
    THEN [raised |-> TRUE, built |-> FALSE, cap |-> NoCap, params |-> <<>>]
    ELSE IF ~source.isInt /\ source.s = kw_synth
    THEN [raised |-> FALSE, built |-> TRUE, cap |-> Construct(p.d, img, engine),
          params |-> p.d]
    ELSE IF Has(p.d, kw_size) /\ ~ParseSize(p.d[kw_size]).ok
    THEN [raised |-> TRUE, built |-> TRUE, cap |-> NoCap, params |-> p.d]
    ELSE [raised |-> FALSE, built |-> TRUE, cap |-> VideoCapture(opens),
          params |-> p.d]

\* a recursive call that hands the fallback on
FallbackCall_keep(fallback) == [source |-> fallback.d, fallback |-> fallback]

\* line 205: the arguments of the recursive call
FallbackCall(fallback) == [source |-> fallback.d, fallback |-> NoFallback]

\* an addition that wraps modulo 256
SaturatingAdd_wrap(a, b) == (a + b) % (MaxU8 + 1)

\* cv.add(buf, noise, dtype=cv.CV_8UC3): the sum, saturated to 0..255
SaturatingAdd(a, b) ==
    IF a + b > MaxU8 THEN MaxU8 ELSE IF a + b < 0 THEN 0 ELSE a + b

\* a render that advances the time before it computes the pose
RenderTime_advanceFirst(c) == [pose |-> c.t + 1, next |-> c.t + 1]

\* Chess.render, lines 139-140: t = self.t; self.t += 1.0/30.0.  The pose
\* of lines 143-151 is computed from the local t.
RenderTime(c) == [pose |-> c.t, next |-> c.t + 1]

\* a fallback step that also absorbs the exception of the body
Outcome_absorb(b, fallback) ==
    IF (b.raised \/ Unusable(b.cap)) /\ fallback.some THEN "recurse"
    ELSE IF b.raised THEN "raise"
    ELSE "return"

\* lines 202-206 of one invocation whose body gave b: the exception leaves
\* the function, or the fallback is resolved, or cap is returned
Outcome(b, fallback) ==
    IF b.raised THEN "raise"
    ELSE IF Unusable(b.cap) /\ fallback.some THEN "recurse"
    ELSE "return"

----------------------------------------------------------------------------
(* Inputs *)

Descriptors ==
    {presets[n] : n \in PresetNames} \cup
    {d_chess320, d_chessplain, d_synth, d_drive, d_drivepad, d_dev0, d_dev1x,
     d_file, d_nokey, d_dupkey, d_twoeq, d_filebad}

\* the fallbacks a caller passes: none, the default presets['chess'], others
Fallbacks ==
    {NoFallback, Some(presets.chess), Some(presets.empty), Some(d_synth),
     Some(d_dev0), Some(d_nokey)}

GenAlphabet == {"c", "1", ":", "="}

\* every descriptor over GenAlphabet of at most MaxLen characters
Generated == UNION {[1..n -> GenAlphabet] : n \in 0..MaxLen}

CallInputs ==
    (Descriptors \X Fallbacks) \cup (Generated \X {NoFallback})

----------------------------------------------------------------------------
(* State *)

VARIABLES
    pc,          \* "idle", "resolving" (an invocation is pending), "done", "error"
    argSource,   \* the descriptor given to the outermost create_capture
    argFallback, \* the fallback given to the outermost create_capture
    call,        \* the arguments of the pending invocation
    attempts,    \* the descriptors of the invocations run, in order
    built,       \* per invocation: a constructor was called
    made,        \* per invocation: the value of cap at line 202
    chunks,      \* the tokens of the last invocation (after the drive merge)
    source,      \* the kind-or-path of the last invocation
    params,      \* the parameters of the last invocation
    warnings,    \* diagnostics printed at line 203
    cap,         \* the value create_capture returned
    err,         \* the exception that left the program, "none" if none
    reads,       \* read() calls made on the returned source
    ok,          \* the flag of the last read()
    frame,       \* the frame of the last read(): its size and sampled channel
    buf,         \* the sampled channel before the noise was added
    noiseSample, \* the noise sample added to it
    noised,      \* the last read() added noise
    poseT        \* the time, in ticks, the last render computed its pose at

vars ==
    <<pc, argSource, argFallback, call, attempts, built, made, chunks, source,
      params, warnings, cap, err, reads, ok, frame, buf, noiseSample, noised, poseT>>

resolveVars ==
    <<argSource, argFallback, call, attempts, built, made, chunks, source,
      params, warnings>>

readVars == <<reads, ok, frame, buf, noiseSample, noised, poseT>>

NoFrame == [w |-> 0, h |-> 0, val |-> 0]

Init ==
    /\ pc = "idle"
    /\ argSource = <<>>
    /\ argFallback = NoFallback
    /\ call = [source |-> <<>>, fallback |-> NoFallback]
    /\ attempts = <<>>
    /\ built = <<>>
    /\ made = <<>>
    /\ chunks = <<>>
    /\ source = [isInt |-> FALSE, n |-> 0, s |-> <<>>]
    /\ params = <<>>
    /\ warnings = 0
    /\ cap = NoCap
    /\ err = "none"
    /\ reads = 0
    /\ ok = FALSE
    /\ frame = NoFrame
    /\ buf = 0
    /\ noiseSample = 0
    /\ noised = FALSE
    /\ poseT = 0

----------------------------------------------------------------------------
(* Actions *)

\* a caller invokes create_capture(d, fb)
Call ==
    /\ pc = "idle"
    /\ \E in \in CallInputs :
         /\ argSource' = in[1]
         /\ argFallback' = in[2]
         /\ call' = [source |-> in[1], fallback |-> in[2]]
    /\ pc' = "resolving"
    /\ UNCHANGED <<attempts, built, made, chunks, source, params, warnings,
                   cap, err>>
    /\ UNCHANGED readVars

\* one invocation of create_capture, lines 179-206; img, opens and engine
\* are what the file system, the device and the scene engine answer
Attempt ==
    /\ pc = "resolving"
    /\ Len(attempts) < MaxAttempts
    /\ \E ch \in {Chunks(call.source)} :
       \E src \in {SourceOf(ch)}, p \in {ParamsOf(ch)} :
       \E img \in ImreadResults, opens \in BOOLEAN, engine \in BOOLEAN :
       \E b \in {Body(src, p, img, opens, engine)} :
       \E o \in {Outcome(b, call.fallback)} :
         /\ attempts' = Append(attempts, call.source)
         /\ built' = Append(built, b.built)
         /\ made' = Append(made, b.cap)
         /\ chunks' = ch
         /\ source' = src
         /\ params' = b.params
         /\ warnings' = IF ~b.raised /\ Unusable(b.cap) THEN warnings + 1 ELSE warnings
         /\ pc' = IF o = "raise" THEN "error"
                  ELSE IF o = "recurse" THEN "resolving" ELSE "done"
         /\ err' = IF o = "raise" THEN "ValueError" ELSE err
         /\ call' = IF o = "recurse" THEN FallbackCall(call.fallback) ELSE call
         /\ cap' = IF o = "return" THEN b.cap ELSE cap
    /\ UNCHANGED <<argSource, argFallback>>
    /\ UNCHANGED readVars

\* VideoSynthBase.read on a base or Chess generator; covered is what the
\* render step left at the sampled pixel, n the noise sample there
ReadSynth ==
    /\ pc = "done"
    /\ cap.kind \in {"base", "chess"}
    /\ reads < MaxReads
    /\ \E covered \in {"none", "white", "black"}, n \in NoiseSamples :
         LET fresh == IF cap.hasBg THEN cap.bgVal ELSE 0
             rt == RenderTime(cap)
             drawn == IF cap.kind = "chess" /\ covered = "white" THEN WhiteColor
                      ELSE IF cap.kind = "chess" /\ covered = "black" THEN BlackColor
                      ELSE fresh
             addNoise == cap.noiseNum > 0
         IN /\ buf' = drawn
            /\ noised' = addNoise
            /\ noiseSample' = IF addNoise THEN n ELSE 0
            /\ frame' = [w |-> cap.w, h |-> cap.h,
                         val |-> IF addNoise THEN SaturatingAdd(drawn, n) ELSE drawn]
            /\ cap' = IF cap.kind = "chess" THEN [cap EXCEPT !.t = rt.next] ELSE cap
            /\ poseT' = IF cap.kind = "chess" THEN rt.pose ELSE poseT
    /\ ok' = TRUE
    /\ reads' = reads + 1
    /\ UNCHANGED <<pc, err>>
    /\ UNCHANGED resolveVars

\* Book.read and Cube.read: the engine's next frame plus noise, always added
ReadScene ==
    /\ pc = "done"
    /\ cap.kind \in {"book", "cube"}
    /\ reads < MaxReads
    /\ \E v \in PixelVals, n \in NoiseSamples :
         LET s == IF cap.noiseNum = 0 THEN 0 ELSE n
         IN /\ buf' = v
            /\ noiseSample' = s
            /\ frame' = [w |-> ImageDim, h |-> ImageDim, val |-> SaturatingAdd(v, s)]
    /\ noised' = TRUE
    /\ ok' = TRUE
    /\ reads' = reads + 1
    /\ UNCHANGED <<pc, err, cap, poseT>>
    /\ UNCHANGED resolveVars

\* read() of a cv.VideoCapture: a closed capture gives no frame
ReadCapture ==
    /\ pc = "done"
    /\ cap.kind = "capture"
    /\ reads < MaxReads
    /\ \E got \in BOOLEAN : ok' = (got /\ cap.opened)
    /\ frame' = NoFrame
    /\ reads' = reads + 1
    /\ UNCHANGED <<pc, err, cap, buf, noiseSample, noised, poseT>>
    /\ UNCHANGED resolveVars

\* cap.read() when create_capture returned None: AttributeError
ReadNone ==
    /\ pc = "done"
    /\ cap.kind = "none"
    /\ pc' = "error"
    /\ err' = "AttributeError"
    /\ UNCHANGED cap
    /\ UNCHANGED readVars
    /\ UNCHANGED resolveVars

Next ==
    \/ Call
    \/ Attempt
    \/ ReadSynth
    \/ ReadScene
    \/ ReadCapture
    \/ ReadNone

Spec == Init /\ [][Next]_vars

----------------------------------------------------------------------------
(* Properties *)

\* the object is a source that answers isOpened() with true
Opened(c) == c.kind # "none" /\ c.opened

\* the same source object, whatever its simulated time
SameSource(c, m) == [c EXCEPT !.t = m.t] = m

CountChar(s, c) == Cardinality({i \in 1..Len(s) : s[i] = c})

FirstEq(tok) == CHOOSE i \in 1..Len(tok) : tok[i] = "=" /\ \A j \in 1..(i - 1) : tok[j] # "="

\* the text before and the text after the '=' of a token that has one
KeyOf(tok) == SubSeq(tok, 1, FirstEq(tok) - 1)

ValOf(tok) == SubSeq(tok, FirstEq(tok) + 1, Len(tok))

\* a parameter token of the descriptor has no '=' or more than one
Malformed(d) ==
    \E i \in 2..Len(Chunks(d)) : CountChar(Chunks(d)[i], "=") # 1

\* the number of the last invocation, and its descriptor
Last == Len(attempts)

LastDescriptor == attempts[Last]

\* C1: a resolution runs at most two invocations, the second one only after
\* the first gave no open source and a fallback was supplied, and the second
\* one has no fallback, so it ends the resolution whatever it yields
C1_AtMostTwoAttempts ==
    /\ Last <= 2
    /\ Last >= 1 => attempts[1] = argSource
    /\ (Last >= 1 /\ pc = "resolving") =>
          /\ Last = 1
          /\ argFallback.some
          /\ ~Opened(made[1])
          /\ call = [source |-> argFallback.d, fallback |-> NoFallback]
    /\ Last = 2 =>
          /\ pc \in {"done", "error"}
          /\ argFallback.some
          /\ attempts[2] = argFallback.d
          /\ ~Opened(made[1])

\* the fallback itself failed to open and the resolution ended there
C1_Witness ==
    /\ Last = 2
    /\ pc = "done"
    /\ built[2]
    /\ ~Opened(made[2])

\* C2: an opened primary is returned without resolving the fallback; after
\* a primary that did not open, the source built from the supplied fallback
\* is returned, opened when the fallback opened
C2_SelectedSource ==
    /\ (Last >= 1 /\ Opened(made[1])) =>
          /\ pc = "done"
          /\ Last = 1
          /\ SameSource(cap, made[1])
    /\ (pc = "done" /\ ~Opened(made[1]) /\ argFallback.some) =>
          /\ Last = 2
          /\ attempts[2] = argFallback.d
          /\ SameSource(cap, made[2])
          /\ Opened(made[2]) => Opened(cap)

\* the primary capture did not open and the default fallback, the chess
\* preset, gave the opened source that was returned
C2_Witness ==
    /\ pc = "done"
    /\ Last = 2
    /\ made[1].kind = "capture"
    /\ ~made[1].opened
    /\ attempts[2] = presets.chess
    /\ cap.kind = "chess"
    /\ Opened(cap)

\* C3: a resolution that ends without a working source returns a source
\* object, on which isOpened() can be called and answers false
C3_UnopenedSourceReturned ==
    (pc = "done" /\ ~Opened(cap)) => cap.kind # "none"

\* C4: the chess descriptor with size 320x240 and no background resolves,
\* without fallback, to an opened source of 320x240 whose reads succeed
C4_Chess320EndToEnd ==
    (Last >= 1 /\ argSource = d_chess320 /\ argFallback = NoFallback) =>
        /\ pc = "done"
        /\ Opened(cap)
        /\ cap.w = 320 /\ cap.h = 240
        /\ reads >= 1 => (ok /\ frame.w = 320 /\ frame.h = 240)

\* C5: an invocation on a preset descriptor, as the descriptor or as the
\* fallback, parses and reaches the construction of a source
C5_PresetsParse ==
    \A i \in 1..Last :
        attempts[i] \in {presets[n] : n \in PresetNames} => built[i]

\* C6 as stated: when every parameter token has exactly one '=', each token
\* is recorded as its key with its value
C6_EveryTokenRecorded ==
    (Last >= 1 /\ \A i \in 2..Len(chunks) : CountChar(chunks[i], "=") = 1) =>
        \A i \in 2..Len(chunks) :
            /\ KeyOf(chunks[i]) \in DOMAIN params
            /\ params[KeyOf(chunks[i])] = ValOf(chunks[i])

\* C6 as amended: a parameter token without '=' makes the invocation fail
\* with ValueError before a source is constructed; when every parameter
\* token has exactly one '=', the parse succeeds and every key is recorded
\* with the value of the last token that has this key
C6_MalformedOrLastWins ==
    Last >= 1 =>
        /\ (\E i \in 2..Len(chunks) : CountChar(chunks[i], "=") = 0) =>
              /\ pc = "error"
              /\ err = "ValueError"
              /\ ~built[Last]
              /\ made[Last] = NoCap
              /\ cap = NoCap
        /\ (\A i \in 2..Len(chunks) : CountChar(chunks[i], "=") = 1) =>
              /\ built[Last]
              /\ DOMAIN params = {KeyOf(chunks[i]) : i \in 2..Len(chunks)}
              /\ \A i \in 2..Len(chunks) :
                    LET same == {j \in 2..Len(chunks) : KeyOf(chunks[j]) = KeyOf(chunks[i])}
                        last == CHOOSE j \in same : \A k \in same : k <= j
                    IN params[KeyOf(chunks[i])] = ValOf(chunks[last])

\* the descriptor that gives the key noise twice was parsed: the second
\* value is the one recorded
C6_Witness ==
    /\ Last >= 1
    /\ LastDescriptor = d_dupkey
    /\ built[Last]
    /\ params[kw_noise] = <<"0", ".", "0">>

\* C7: a first token of one letter is merged with the second token into
\* the kind-or-path token and only the tokens after them are parameters;
\* any other first token is left alone; "c:path/to/video.mp4" is one path
\* token without parameters
C7_DriveLetterMerge ==
    Last >= 1 =>
        LET raw == Split(Strip(LastDescriptor), ":")
            drive == Len(raw) >= 2 /\ Len(raw[1]) = 1 /\ raw[1][1] \in Alpha
        IN /\ drive =>
                /\ chunks = <<raw[1] \o <<":">> \o raw[2]>> \o SubSeq(raw, 3, Len(raw))
                /\ source = [isInt |-> FALSE, n |-> 0, s |-> raw[1] \o <<":">> \o raw[2]]
                /\ built[Last] => DOMAIN params = {KeyOf(raw[i]) : i \in 3..Len(raw)}
           /\ ~drive => chunks = raw
           /\ LastDescriptor = d_drive =>
                /\ chunks = <<d_drive>>
                /\ source.s = d_drive
                /\ params = <<>>
                /\ built[Last]

\* "c:path/to/video.mp4" was resolved as one path token
C7_Witness ==
    /\ Last = 1
    /\ attempts[1] = d_drive
    /\ chunks = <<d_drive>>
    /\ made[1].kind = "capture"

\* C8: the channel a read added noise to holds the sum of the rendered
\* value and the noise sample clamped to 0..255
C8_NoiseSaturates ==
    (reads >= 1 /\ noised) =>
        /\ (buf + noiseSample > 255) => frame.val = 255
        /\ (buf + noiseSample < 0) => frame.val = 0
        /\ (buf + noiseSample \in 0..255) => frame.val = buf + noiseSample

\* a background value of 250 and a noise sample of +50 gave 255
C8_Witness ==
    /\ reads >= 1
    /\ noised
    /\ cap.kind = "base"
    /\ buf = 250
    /\ noiseSample = 50
    /\ frame.val = 255

\* C9 as stated: the k-th render of the Chess generator computes its pose
\* at time k/30 and leaves t at k/30
C9_PoseAtAdvancedTime ==
    (cap.kind = "chess" /\ reads >= 1) => (poseT = reads /\ cap.t = reads)

\* C9 as amended: t starts at 0; the k-th render computes its pose at time
\* (k-1)/30, the value of t before the render, and leaves t at k/30
C9_PoseAtPreviousTime ==
    cap.kind = "chess" =>
        /\ cap.t = reads
        /\ reads >= 1 => poseT = reads - 1

\* t never decreases, and only a render of the Chess generator changes it,
\* by one tick
C9_OnlyRenderAdvances ==
    [][/\ cap'.t >= cap.t
       /\ cap'.t # cap.t =>
            (cap.kind = "chess" /\ reads' = reads + 1 /\ cap'.t = cap.t + 1)]_vars

C9_AmendedTime == []C9_PoseAtPreviousTime /\ C9_OnlyRenderAdvances

\* the second render computed its pose at 1/30 and left t at 2/30
C9_Witness ==
    /\ cap.kind = "chess"
    /\ reads = 2
    /\ poseT = 1
    /\ cap.t = 2

====
